---- MODULE Spec2Model ----
(***************************************************************************)
(* Sleepers (bastion-executor/src/sleepers.rs): the place where worker     *)
(* threads go to sleep.  A Mutex<usize> `sleep`, a Condvar `wake` and an   *)
(* AtomicBool `notified`, driven by wait() and notify_one().               *)
(*                                                                         *)
(* Every atomic access is SeqCst and every other access is made under the  *)
(* mutex, so the program is modelled as an interleaving of the steps below.*)
(* std::sync::Condvar::wait is documented as susceptible to spurious       *)
(* wakeups; wait() calls it once, without a predicate loop, so a parked    *)
(* thread may also leave the condition variable without being notified.    *)
(***************************************************************************)
EXTENDS Integers, FiniteSets, Sequences

\* ---------------------------------------------------------------- bounds
\* Worker threads calling wait() (the stress scenario's N).
NumWaiters == 2
\* wait() calls each worker makes (the stress scenario's M).
MaxWaits == 1
\* Threads that may call notify_one().
NumNotifiers == 2

\* The unlocked state of the mutex / "no thread".
NoThread == 0

Waiters == 1..NumWaiters
Notifiers == (NumWaiters + 1)..(NumWaiters + NumNotifiers)
Threads == Waiters \cup Notifiers
\* The notify_one() calls made in total (N * M).
TotalNotifies == NumWaiters * MaxWaits
\* The one thread that notifies in the stress scenario.
StressNotifier == NumWaiters + 1
\* The monitor counts the notify_one() calls of a run up to this many.
MaxRun == NumWaiters + 1

VARIABLES
    sleep,      \* Mutex<usize>: "how many threads are currently asleep"
    holder,     \* the thread holding the mutex `sleep`, or NoThread
    wake,       \* the threads blocked on the Condvar `wake`
    notified,   \* AtomicBool
    pc,         \* each thread's position inside wait() / notify_one()
    waitsLeft,  \* wait() calls each worker still has to make
    notifyLeft, \* notify_one() calls still to be made
    \* ---- history (observations of the calls; the code never reads them)
    spurious,   \* wakeups of the condition variable that no notify_one() made
    did,        \* what each notifier's notify_one() call in progress has done
    outcome,    \* how each worker's wait() call in progress has gone
    signalled,  \* workers taken off the condition variable by a notify_one()
    others,     \* whether a thread other than StressNotifier has notified
    mon         \* the calls made one at a time since a calm moment (see below)

core_but_pc == <<sleep, holder, wake, notified, waitsLeft, notifyLeft>>
core == <<sleep, holder, wake, notified, pc, waitsLeft, notifyLeft>>
hist == <<spurious, did, outcome, signalled, others, mon>>
vars == <<core, hist>>

\* ------------------------------------------------- the code's expressions
\* Faulty variant of the constructor: a credit is pending from the start.
NotifiedAtNewTrue == TRUE
\* line 32: notified: AtomicBool::new(false)
NotifiedAtNew == FALSE
\* Faulty variant of the mutex: lock() never waits for the holder.
LockNeverWaits(h) == TRUE
\* lines 46, 50, 57: Mutex::lock returns once no thread holds the mutex.
MutexIsFree(h) == h = NoThread
\* Faulty variant of the swap: the flag is read but not cleared.
SwapKeepsFlag == notified
\* Faulty variant of the swap: it writes true.
SwapStoresTrue == TRUE
\* line 48: notified.swap(false, SeqCst) leaves false.
NotifiedAfterSwap == FALSE
\* Faulty variant of the test: the thread parks whatever the swap returned.
MustParkAlways(old) == TRUE
\* line 48: `if !swap(..)`: the thread parks when the old value was false.
MustPark(old) == ~old
\* line 49: *sleep += 1
SleepAfterPark(s) == s + 1
\* Faulty variant of the wait: the thread blocks with the mutex still locked.
HolderKeepsMutex(t) == t
\* line 50: Condvar::wait releases the mutex while the thread is blocked.
HolderWhileParked(t) == NoThread
\* Faulty variant of the early exit: never taken.
GoesOnAlways(flag) == TRUE
\* Faulty variant of the early exit: taken when the flag is false.
GoesOnWhenSet(flag) == flag
\* line 56: `if !notified.load(SeqCst)`: the call goes on when it read false.
GoesOn(flag) == ~flag
\* Faulty variant of the test: off by one.
TakesWakePathOffByOne(s) == s > 1
\* line 59: `if *sleep > 0`
TakesWakePath(s) == s > 0
\* line 60: *sleep -= 1
SleepAfterWake(s) == s - 1
\* line 61: Condvar::notify_one wakes one blocked thread, if there is one.
CondvarNotifyOne(q) == IF q = {} THEN {NoThread} ELSE q
\* Faulty variant of the store: it writes false.
StoreFalse == FALSE
\* line 63: notified.store(true, SeqCst)
NotifiedAfterStore == TRUE
\* lines 57-64: the locked path of notify_one(), as a whole: what it makes of
\* `sleep` and `notified`, and whether it signals the condition variable.
LockedPath(s, flag) ==
    IF TakesWakePath(s)
    THEN [sleep |-> SleepAfterWake(s), notified |-> flag, signals |-> TRUE]
    ELSE [sleep |-> s, notified |-> NotifiedAfterStore, signals |-> FALSE]

\* --------------------------------------------------------------- monitor
\* `mon` observes calls that are made one at a time.  A window opens when a
\* notify_one() call starts in a calm state (every thread outside any call,
\* or blocked on the condition variable) and records
\*   b0   the threads blocked on the condition variable at that moment,
\*   c0   whether a credit was pending at that moment,
\*   n    the notify_one() calls completed since (counted up to MaxRun),
\*   hits how many of them took a thread off the condition variable,
\*   ws   how the wait() calls made after those notifies went, in order,
\*   busy the thread whose call is in progress.
\* The window closes as soon as a call starts while another one is running.
MonOff ==
    [on |-> FALSE, b0 |-> {}, c0 |-> FALSE, n |-> 0, hits |-> 0,
     ws |-> <<>>, busy |-> NoThread]

\* A thread is inside the part of a call that decides how the call goes.
InCall(t) ==
    IF t \in Notifiers THEN pc[t] # "idle"
    ELSE pc[t] \in {"swap", "incr", "cvwait"}

Overlaps(t) == \E u \in Threads \ {t} : InCall(u)

Calm == \A t \in Threads : pc[t] \in {"idle", "parked"}

MonDone(m) ==
    [m EXCEPT !.n = IF @ < MaxRun THEN @ + 1 ELSE @, !.busy = NoThread]

\* The windows a notify_one() call started by n may belong to: a new one,
\* or the running one.
MonOnNotify(n) ==
    IF Overlaps(n) THEN {MonOff}
    ELSE LET fresh == IF Calm
                      THEN {[MonOff EXCEPT !.on = TRUE, !.b0 = wake,
                                           !.c0 = notified, !.busy = n]}
                      ELSE {}
             cont == IF mon.on /\ mon.ws = <<>>
                     THEN {[mon EXCEPT !.busy = n]}
                     ELSE {}
         IN  IF fresh \cup cont = {} THEN {MonOff} ELSE fresh \cup cont

MonOnWait(w) ==
    IF ~Overlaps(w) /\ mon.on /\ mon.n > 0 /\ Len(mon.ws) < 2
    THEN [mon EXCEPT !.busy = w]
    ELSE MonOff

MonWaitWent(w, how) ==
    IF mon.busy = w
    THEN [mon EXCEPT !.ws = Append(@, how), !.busy = NoThread]
    ELSE mon

\* ------------------------------------------------------------------ Init
\* Sleepers::default(): Mutex::new(0), Condvar::new(), AtomicBool::new(false).
Init ==
    /\ sleep = 0
    /\ holder = NoThread
    /\ wake = {}
    /\ notified = NotifiedAtNew
    /\ pc = [t \in Threads |-> "idle"]
    /\ waitsLeft = [w \in Waiters |-> MaxWaits]
    /\ notifyLeft = TotalNotifies
    /\ spurious = 0
    /\ did = [n \in Notifiers |-> "idle"]
    /\ outcome = [w \in Waiters |-> "idle"]
    /\ signalled = {}
    /\ others = FALSE
    /\ mon = MonOff

\* ---------------------------------------------------------------- wait()
\* line 46: let mut sleep = self.sleep.lock().unwrap();
WaitLock(w) ==
    /\ pc[w] = "idle"
    /\ waitsLeft[w] > 0
    /\ MutexIsFree(holder)
    /\ holder' = w
    /\ pc' = [pc EXCEPT ![w] = "swap"]
    /\ outcome' = [outcome EXCEPT ![w] = "none"]
    /\ mon' = MonOnWait(w)
    /\ UNCHANGED <<sleep, wake, notified, waitsLeft, notifyLeft>>
    /\ UNCHANGED <<spurious, did, signalled, others>>

\* line 48: if !self.notified.swap(false, Ordering::SeqCst) {
WaitSwap(w) ==
    /\ pc[w] = "swap"
    /\ notified' = NotifiedAfterSwap
    /\ pc' = [pc EXCEPT ![w] = IF MustPark(notified) THEN "incr" ELSE "drop"]
    /\ outcome' = [outcome EXCEPT ![w] =
                      IF notified /\ ~notified' THEN "consumed" ELSE @]
    /\ mon' = IF pc'[w] = "drop" THEN MonWaitWent(w, outcome'[w]) ELSE mon
    /\ UNCHANGED <<sleep, holder, wake, waitsLeft, notifyLeft>>
    /\ UNCHANGED <<spurious, did, signalled, others>>

\* line 49: *sleep += 1;
WaitIncr(w) ==
    /\ pc[w] = "incr"
    /\ sleep' = SleepAfterPark(sleep)
    /\ pc' = [pc EXCEPT ![w] = "cvwait"]
    /\ outcome' = [outcome EXCEPT ![w] = IF sleep' = sleep + 1 THEN "counted" ELSE @]
    /\ UNCHANGED <<holder, wake, notified, waitsLeft, notifyLeft>>
    /\ UNCHANGED <<spurious, did, signalled, others, mon>>

\* line 50: self.wake.wait(sleep): releases the mutex and blocks, atomically.
WaitPark(w) ==
    /\ pc[w] = "cvwait"
    /\ wake' = wake \cup {w}
    /\ holder' = HolderWhileParked(w)
    /\ pc' = [pc EXCEPT ![w] = "parked"]
    /\ outcome' = [outcome EXCEPT ![w] = IF @ = "counted" THEN "parked" ELSE @]
    /\ mon' = MonWaitWent(w, "parked")
    /\ UNCHANGED <<sleep, notified, waitsLeft, notifyLeft>>
    /\ UNCHANGED <<spurious, did, signalled, others>>

\* line 50: Condvar::wait may return without any notify_one() (a spurious
\* wakeup); wait() does not re-check anything and goes on to return.
SpuriousWake(w) ==
    /\ pc[w] = "parked"
    /\ w \in wake
    /\ wake' = wake \ {w}
    /\ pc' = [pc EXCEPT ![w] = "woken"]
    /\ spurious' = spurious + 1
    /\ UNCHANGED <<sleep, holder, notified, waitsLeft, notifyLeft>>
    /\ UNCHANGED <<did, outcome, signalled, mon, others>>

\* Faulty variant of the wakeup: the woken thread swaps the flag again.
WaitReacquireSwaps(w) ==
    /\ pc[w] = "woken"
    /\ MutexIsFree(holder)
    /\ holder' = w
    /\ notified' = NotifiedAfterSwap
    /\ pc' = [pc EXCEPT ![w] = "drop"]
    /\ UNCHANGED <<sleep, wake, waitsLeft, notifyLeft>>
    /\ UNCHANGED hist

\* line 50: Condvar::wait re-acquires the mutex before it returns.
WaitReacquire(w) ==
    /\ pc[w] = "woken"
    /\ MutexIsFree(holder)
    /\ holder' = w
    /\ pc' = [pc EXCEPT ![w] = "drop"]
    /\ UNCHANGED <<sleep, wake, notified, waitsLeft, notifyLeft>>
    /\ UNCHANGED hist

\* lines 50-52: the guard is dropped (std::mem::drop, or the end of the
\* scope on the credit path) and wait() returns.
WaitReturn(w) ==
    /\ pc[w] = "drop"
    /\ holder = w
    /\ holder' = NoThread
    /\ pc' = [pc EXCEPT ![w] = "idle"]
    /\ waitsLeft' = [waitsLeft EXCEPT ![w] = @ - 1]
    /\ outcome' = [outcome EXCEPT ![w] = "idle"]
    /\ signalled' = signalled \ {w}
    /\ UNCHANGED <<sleep, wake, notified, notifyLeft>>
    /\ UNCHANGED <<spurious, did, mon, others>>

\* ---------------------------------------------------------- notify_one()
\* line 56: if !self.notified.load(Ordering::SeqCst) {
NotifyLoad(n) ==
    /\ pc[n] = "idle"
    /\ notifyLeft > 0
    /\ notifyLeft' = notifyLeft - 1
    /\ pc' = [pc EXCEPT ![n] = IF GoesOn(notified) THEN "lock" ELSE "skip"]
    /\ did' = [did EXCEPT ![n] = IF notified THEN "sawcredit" ELSE "none"]
    /\ others' = (others \/ n # StressNotifier)
    /\ mon' \in MonOnNotify(n)
    /\ UNCHANGED <<sleep, holder, wake, notified, waitsLeft>>
    /\ UNCHANGED <<spurious, outcome, signalled>>

\* lines 56, 65-66: the flag was read true: the body of the `if` is skipped
\* and notify_one() returns.
NotifySkip(n) ==
    /\ pc[n] = "skip"
    /\ pc' = [pc EXCEPT ![n] = "idle"]
    /\ did' = [did EXCEPT ![n] = "idle"]
    /\ mon' = IF mon.busy = n THEN MonDone(mon) ELSE mon
    /\ UNCHANGED core_but_pc
    /\ UNCHANGED <<spurious, outcome, signalled, others>>

\* line 57: let mut sleep = self.sleep.lock().unwrap();
NotifyLock(n) ==
    /\ pc[n] = "lock"
    /\ MutexIsFree(holder)
    /\ holder' = n
    /\ pc' = [pc EXCEPT ![n] = "test"]
    /\ UNCHANGED <<sleep, wake, notified, waitsLeft, notifyLeft>>
    /\ UNCHANGED hist

\* lines 59-60: if *sleep > 0 { *sleep -= 1;
NotifyTest(n) ==
    /\ pc[n] = "test"
    /\ IF TakesWakePath(sleep)
       THEN /\ sleep' = SleepAfterWake(sleep)
            /\ pc' = [pc EXCEPT ![n] = "signal"]
       ELSE /\ sleep' = sleep
            /\ pc' = [pc EXCEPT ![n] = "store"]
    /\ did' = [did EXCEPT ![n] = IF sleep' = sleep - 1 THEN "dec" ELSE @]
    /\ UNCHANGED <<holder, wake, notified, waitsLeft, notifyLeft>>
    /\ UNCHANGED <<spurious, outcome, signalled, others, mon>>

\* line 61: self.wake.notify_one();
NotifySignal(n) ==
    /\ pc[n] = "signal"
    /\ \E t \in CondvarNotifyOne(wake) :
          /\ wake' = wake \ {t}
          /\ pc' = [x \in Threads |->
                       IF x = n THEN "unlock"
                       ELSE IF x = t THEN "woken" ELSE pc[x]]
          /\ signalled' = (signalled \cup {t}) \ {NoThread}
    /\ did' = [did EXCEPT ![n] =
                  IF @ # "dec" THEN "nodec"
                  ELSE IF wake' # wake THEN "woke" ELSE "signal"]
    /\ mon' = IF mon.busy = n /\ wake' # wake
              THEN [mon EXCEPT !.hits = @ + 1] ELSE mon
    /\ UNCHANGED <<sleep, holder, notified, waitsLeft, notifyLeft>>
    /\ UNCHANGED <<spurious, outcome, others>>

\* line 63: self.notified.store(true, Ordering::SeqCst);
NotifyStore(n) ==
    /\ pc[n] = "store"
    /\ notified' = NotifiedAfterStore
    /\ pc' = [pc EXCEPT ![n] = "unlock"]
    /\ did' = [did EXCEPT ![n] = IF notified' THEN "credit" ELSE @]
    /\ UNCHANGED <<sleep, holder, wake, waitsLeft, notifyLeft>>
    /\ UNCHANGED <<spurious, outcome, signalled, mon, others>>

\* lines 64-66: the guard goes out of scope and notify_one() returns.
NotifyReturn(n) ==
    /\ pc[n] = "unlock"
    /\ holder = n
    /\ holder' = NoThread
    /\ pc' = [pc EXCEPT ![n] = "idle"]
    /\ did' = [did EXCEPT ![n] = "idle"]
    /\ mon' = IF mon.busy = n THEN MonDone(mon) ELSE mon
    /\ UNCHANGED <<sleep, wake, notified, waitsLeft, notifyLeft>>
    /\ UNCHANGED <<spurious, outcome, signalled, others>>

\* ------------------------------------------------------------------ Next
WaitStep(w) ==
    \/ WaitLock(w)
    \/ WaitSwap(w)
    \/ WaitIncr(w)
    \/ WaitPark(w)
    \/ WaitReacquire(w)
    \/ WaitReturn(w)

NotifyStep(n) ==
    \/ NotifyLoad(n)
    \/ NotifySkip(n)
    \/ NotifyLock(n)
    \/ NotifyTest(n)
    \/ NotifySignal(n)
    \/ NotifyStore(n)
    \/ NotifyReturn(n)

Next ==
    \/ \E w \in Waiters : WaitStep(w)
    \/ \E w \in Waiters : SpuriousWake(w)
    \/ \E n \in Notifiers : NotifyStep(n)

Spec == Init /\ [][Next]_vars

\* A step of some thread's call (anything but a spurious wakeup).
CallStep ==
    \/ \E w \in Waiters : WaitStep(w)
    \/ \E n \in Notifiers : NotifyStep(n)

\* Fair scheduling, in its weakest form: the threads do not all stop while
\* one of them can take a step of its call.  A spurious wakeup is never owed
\* to anybody.
FairSpec == Spec /\ WF_vars(CallStep)

\* ------------------------------------------------------- derived counters
RECURSIVE ReturnedUpTo(_)
ReturnedUpTo(k) ==
    IF k = 0 THEN 0 ELSE (MaxWaits - waitsLeft[k]) + ReturnedUpTo(k - 1)
\* wait() calls that have returned (the stress scenario's counter).
Returned == ReturnedUpTo(NumWaiters)
\* notify_one() calls that have been invoked.
Invoked == TotalNotifies - notifyLeft

\* ----------------------------------------------------------------- claims
\* A window of calls made one at a time that opened with nobody blocked on
\* the condition variable and no credit pending.
LoneNotifyWindow == mon.on /\ mon.b0 = {} /\ ~mon.c0

\* C1: no lost wakeup.  When notify_one() is called once, and completes,
\* while no wait() is blocked and no credit is pending, it leaves a credit,
\* and the single wait() call made next consumes it and returns without
\* blocking on the condition variable.
C1_NoLostWakeup ==
    (LoneNotifyWindow /\ mon.n = 1) =>
        /\ mon.ws = <<>> => notified
        /\ mon.ws # <<>> => mon.ws[1] = "consumed"

\* C4: at most one delivery per notify.  In every reachable state the number
\* of wait() calls that have returned is at most the number of notify_one()
\* calls that have been invoked.
C4_AtMostOneDeliveryPerNotify == Returned <= Invoked

\* C6: parked-count correctness.  `sleep` is never negative and, whenever
\* nobody is inside the critical section, equals the number of threads
\* blocked inside wait() on the condition variable.
C6_ParkedCountCorrect ==
    /\ sleep >= 0
    /\ holder = NoThread => sleep = Cardinality(wake)

\* C8: a thread blocked in wait() is only released by notify_one().  Every
\* wait() call that parked and is on its way out was taken off the condition
\* variable by a notify_one() call that decremented `sleep` and signalled.
C8_ReleasedOnlyByNotify ==
    \A w \in Waiters :
        (outcome[w] = "parked" /\ pc[w] \in {"woken", "drop"}) => w \in signalled

\* The stress scenario is over: StressNotifier alone has made all N * M
\* notify_one() calls, and no thread can take a step of its own any more
\* (each worker has finished its M iterations or is blocked in wait()).
StressOver ==
    /\ ~others
    /\ notifyLeft = 0
    /\ \A n \in Notifiers : pc[n] = "idle"
    /\ \A w \in Waiters :
          pc[w] = "parked" \/ (pc[w] = "idle" /\ waitsLeft[w] = 0)

\* C2 (as claimed): the stress scenario ends with the counter equal to
\* exactly N * M and every worker terminated, none blocked in wait().
C2_StressCompletes ==
    StressOver =>
        /\ Returned = TotalNotifies
        /\ \A w \in Waiters : pc[w] = "idle" /\ waitsLeft[w] = 0

\* C2 (amended): the counter never exceeds N * M, nor the number of
\* notify_one() calls invoked plus the number of spurious wakeups of the
\* condition variable.
C2_StressBounded ==
    /\ Returned <= TotalNotifies
    /\ Returned <= Invoked + spurious

\* C2 witness: the stress scenario is over, without any spurious wakeup, and
\* a worker is left blocked in wait() with the counter below N * M.
C2_Witness ==
    /\ StressOver
    /\ spurious = 0
    /\ Returned < TotalNotifies
    /\ \E w \in Waiters : pc[w] = "parked"

\* C3 (as claimed): every notify_one() call that is about to return has
\* either decremented `sleep` and woken a thread parked at that moment, or
\* set `notified`; every wait() call past its test has either consumed
\* `notified` or parked with `sleep` incremented.
C3_NoNotifyLost ==
    /\ \A n \in Notifiers :
          pc[n] \in {"skip", "unlock"} => did[n] \in {"woke", "credit"}
    /\ \A w \in Waiters :
          pc[w] \in {"parked", "woken", "drop"} =>
              outcome[w] \in {"consumed", "parked"}

\* C3 (amended): a notify_one() call that is about to return has either read
\* `notified` true and done nothing, or decremented `sleep` and signalled the
\* condition variable (waking a thread if one was blocked on it), or set
\* `notified`; every wait() call past its test has either consumed
\* `notified` or parked with `sleep` incremented.
C3_NotifyAccounted ==
    /\ \A n \in Notifiers :
          /\ pc[n] = "skip" => did[n] = "sawcredit"
          /\ pc[n] = "unlock" => did[n] \in {"woke", "signal", "credit"}
    /\ \A w \in Waiters :
          pc[w] \in {"parked", "woken", "drop"} =>
              outcome[w] \in {"consumed", "parked"}

\* C3 witness: one notify_one() call returns on the fast path while another
\* thread's wait() has parked.
C3_Witness ==
    /\ \E n \in Notifiers : pc[n] = "skip" /\ did[n] = "sawcredit"
    /\ \E w \in Waiters : pc[w] = "parked" /\ outcome[w] = "parked"

\* C5: credit non-accumulation.  Two or more notify_one() calls in a row,
\* with no thread parked and no wait() in between, leave exactly one credit;
\* the first wait() made next consumes it and returns at once, and a second
\* wait() made right after, with no further notify_one(), blocks.
C5_CreditNonAccumulation ==
    (mon.on /\ mon.b0 = {} /\ mon.n >= 2) =>
        /\ mon.ws = <<>> => notified
        /\ Len(mon.ws) >= 1 => mon.ws[1] = "consumed"
        /\ Len(mon.ws) >= 2 => mon.ws[2] = "parked"

\* C7: ordering scenario.  When thread B is the one thread blocked in wait()
\* as thread A calls notify_one(), `notified` stays false throughout, B has
\* left the condition variable by the time A's call returns, and the wait()
\* call made next, with no further notify_one(), blocks.
C7_NotifyWhileBlocked ==
    (/\ mon.on /\ Cardinality(mon.b0) = 1
     /\ mon.n = 0 \/ (mon.n = 1 /\ mon.busy \notin Notifiers)) =>
        /\ ~notified
        /\ (mon.n = 1 /\ mon.ws = <<>> /\ mon.busy = NoThread) =>
               mon.b0 \cap wake = {}
        /\ mon.ws # <<>> => mon.ws[1] = "parked"

\* C7 witness: B was woken by A's notify_one() and has returned, and the
\* third thread's wait() is blocked.
C7_Witness ==
    /\ mon.on /\ Cardinality(mon.b0) = 1 /\ mon.n = 1 /\ mon.hits = 1
    /\ mon.ws = <<"parked">>
    /\ spurious = 0
    /\ \A b \in mon.b0 : pc[b] = "idle" /\ b \notin wake
    /\ \E c \in Waiters \ mon.b0 : pc[c] = "parked"

\* The next step of the thread that holds the mutex.
HolderStep ==
    \/ holder \in Waiters /\ WaitStep(holder)
    \/ holder \in Notifiers /\ NotifyStep(holder)

\* C9: notify_one() is non-blocking.  A thread blocked on the condition
\* variable does not hold the mutex; whoever holds the mutex can always take
\* its next step; and a notify_one() call in progress can take its next step
\* unless it is waiting for the mutex while another thread holds it.  Every
\* call is a bounded number of steps, so under fair lock acquisition every
\* notify_one() call completes, however many threads are parked.
C9_NotifyNeverBlocks ==
    /\ \A t \in wake : holder # t
    /\ holder # NoThread => ENABLED HolderStep
    /\ \A n \in Notifiers :
          pc[n] # "idle" =>
              \/ ENABLED NotifyStep(n)
              \/ pc[n] = "lock" /\ holder \notin {NoThread, n}

\* The same as a liveness property of FairSpec: every notify_one() call in
\* progress completes, and the mutex is always released again.
NotifyCompletes ==
    /\ \A n \in Notifiers : [](pc[n] # "idle" => <>(pc[n] = "idle"))
    /\ [](holder # NoThread => <>(holder = NoThread))

\* C9 witness: a notify_one() call holds the mutex while every worker is
\* blocked on the condition variable.
C9_Witness ==
    /\ wake = Waiters
    /\ \E n \in Notifiers : pc[n] = "test" /\ holder = n

\* C10: N notifies for N parked threads.  With N threads parked, N
\* notify_one() calls made with no wait() call in between each take one
\* parked thread off the condition variable, so that all N are woken, and
\* leave `sleep` at 0 and no credit pending.
C10_NNotifiesWakeN ==
    (/\ mon.on /\ mon.b0 # {} /\ mon.n = Cardinality(mon.b0)
     /\ mon.ws = <<>> /\ mon.busy = NoThread) =>
        /\ mon.hits = mon.n
        /\ mon.b0 \cap wake = {}
        /\ sleep = 0
        /\ ~notified

\* No wait() call has been made yet.
NoWaitYet == \A w \in Waiters : pc[w] = "idle" /\ waitsLeft[w] = MaxWaits

\* C11: construction yields sleep = 0 and notified = false.  So, as long as
\* no notify_one() has been called, no credit is pending and every wait()
\* call blocks on the condition variable, with `sleep` incremented, rather
\* than return by a credit; and a notify_one() call made before any wait()
\* never takes the wake path, the first such call does not take the fast
\* path either, and a call that reaches its end has set `notified`.
C11_FreshConstruction ==
    /\ (Invoked = 0 /\ NoWaitYet) =>
           sleep = 0 /\ ~notified /\ wake = {} /\ holder = NoThread
    /\ Invoked = 0 =>
           /\ ~notified
           /\ \A w \in Waiters :
                 /\ outcome[w] # "consumed"
                 /\ pc[w] \in {"parked", "woken", "drop"} => outcome[w] = "parked"
    /\ NoWaitYet =>
           /\ sleep = 0 /\ wake = {}
           /\ \A n \in Notifiers :
                 /\ pc[n] # "signal"
                 /\ Invoked = 1 => pc[n] # "skip"
                 /\ pc[n] = "unlock" => did[n] = "credit" /\ notified

\* C11 witness: before any notify_one() call, one wait() call is blocked on
\* the condition variable and another is about to increment `sleep`.
C11_Witness ==
    /\ Invoked = 0
    /\ spurious = 0
    /\ \E w \in Waiters : pc[w] = "parked" /\ w \in wake /\ outcome[w] = "parked"
    /\ \E w \in Waiters : pc[w] = "incr" /\ holder = w

\* C12: credit and parked waiters are mutually exclusive.  In every reachable
\* state notified = true implies sleep = 0.
C12_CreditExcludesParked == notified => sleep = 0

\* C12 witness: a credit is pending while one notify_one() call that read
\* the flag false is still waiting for the mutex, and a wait() call that
\* holds the mutex is about to swap the flag.
C12_Witness ==
    /\ notified /\ sleep = 0
    /\ \E n \in Notifiers : pc[n] = "lock"
    /\ \E w \in Waiters : pc[w] = "swap" /\ holder = w

\* The step by which worker w's wait() call performs its swap (line 48).
SwapBy(w) == pc[w] = "swap" /\ pc'[w] # "swap"

\* C13: a single credit is consumed by at most one wait().  The swap of a
\* wait() call that finds `notified` true clears it and the call goes on to
\* return without parking; the swap of a call that finds it false sends the
\* call on to increment `sleep` and block.  So the flag is false from a
\* call's consuming swap until that call returns, no two calls are returning
\* by a credit at once, and of two wait() calls made one after the other with
\* no notify_one() in between, the second blocks when the first consumed the
\* credit.
C13_OneWaitPerCredit ==
    /\ [](\A w \in Waiters :
             outcome[w] = "consumed" =>
                 /\ ~notified
                 /\ pc[w] = "drop" /\ holder = w /\ w \notin wake
                 /\ \A u \in Waiters \ {w} : outcome[u] # "consumed")
    /\ []((Len(mon.ws) >= 2 /\ mon.ws[1] = "consumed") => mon.ws[2] = "parked")
    /\ [][\A w \in Waiters :
             SwapBy(w) =>
                 /\ ~notified'
                 /\ pc'[w] = (IF notified THEN "drop" ELSE "incr")
                 /\ sleep' = sleep /\ wake' = wake]_vars

\* C13 witness: of two wait() calls made after a credit was set, with no
\* notify_one() in between, the first consumed the credit and has returned,
\* and the second is blocked on the condition variable.
C13_Witness ==
    /\ mon.on /\ mon.ws = <<"consumed", "parked">>
    /\ ~notified
    /\ \E w \in Waiters : pc[w] = "idle" /\ waitsLeft[w] = 0
    /\ \E w \in Waiters : pc[w] = "parked" /\ w \in wake

\* The step by which notifier n's notify_one() call reads the flag true and
\* takes the early exit (line 56).
FastPathBy(n) == pc[n] = "idle" /\ pc'[n] = "skip"

\* C14: the fast path of notify_one() is a pure optimization.  Whenever a
\* call takes the early exit, the locked path (lines 57-64) run on the
\* `sleep` and `notified` of that moment changes neither and signals nothing;
\* and either the mutex is free at that moment, or its holder has not yet
\* touched `sleep` or `notified` in its critical section (a wait() about to
\* swap: the locked path can be placed just before it took the mutex), or its
\* holder will release the mutex with `sleep` and `notified` as they are (the
\* locked path can be placed just after).  So the call behaves as the
\* always-locked variant's call placed at that moment does; a call that
\* reads the flag false is the locked path itself.
C14_FastPathRefinesLocked ==
    [][\A n \in Notifiers :
          FastPathBy(n) =>
              /\ LockedPath(sleep, notified) =
                     [sleep |-> sleep, notified |-> notified, signals |-> FALSE]
              /\ \/ holder = NoThread
                 \/ /\ holder \in Waiters
                    /\ pc[holder] \in {"swap", "drop"}
                 \/ /\ holder \in Notifiers
                    /\ pc[holder] \in {"test", "store", "unlock"}
                    /\ pc[holder] = "test" => ~TakesWakePath(sleep)
              /\ UNCHANGED <<sleep, holder, wake, notified>>]_vars

\* C14 witness: the load raced with a concurrent wait(): one notify_one()
\* call read the flag true and is on the early exit, and a wait() call has
\* cleared the flag since.
C14_Witness ==
    /\ \E n \in Notifiers : pc[n] = "skip" /\ did[n] = "sawcredit"
    /\ \E w \in Waiters : outcome[w] = "consumed" /\ pc[w] = "drop"
    /\ ~notified

\* Thread t is between a lock() that returned and the release of the guard:
\* lines 46-50 up to the call of Condvar::wait and lines 50-51 after it
\* returned, in wait(); lines 57-64 in notify_one().
InCritical(t) ==
    pc[t] \in {"swap", "incr", "cvwait", "drop", "test", "signal", "store", "unlock"}

\* The positions from which `sleep` is read or written: line 49 in wait(),
\* lines 59-60 in notify_one().
AccessesSleep(t) == pc[t] \in {"incr", "test"}

\* C15: `sleep` is only read or written by a thread that holds the guard.
\* A thread inside its critical section is the holder of the mutex, so at
\* most one thread is inside at a time; the increment in wait() and the test
\* and decrement in notify_one() are made from inside; and every step that
\* changes `sleep` is a step of the holder, which still holds the mutex after
\* it.
C15_SleepOnlyUnderGuard ==
    /\ [](\A t \in Threads : InCritical(t) <=> holder = t)
    /\ [](Cardinality({t \in Threads : InCritical(t)}) <= 1)
    /\ [](\A t \in Threads : AccessesSleep(t) => InCritical(t) /\ holder = t)
    /\ [][sleep' # sleep =>
             /\ holder \in Threads /\ holder' = holder
             /\ AccessesSleep(holder)
             /\ pc'[holder] # pc[holder]
             /\ \A t \in Threads \ {holder} : pc'[t] = pc[t]]_vars

\* C15 witness: a wait() call is about to increment `sleep` inside its
\* critical section while a thread is blocked on the condition variable and
\* a notify_one() call is waiting for the mutex.
C15_Witness ==
    /\ \E w \in Waiters : pc[w] = "incr" /\ holder = w
    /\ \E n \in Notifiers : pc[n] = "lock"
    /\ wake # {}

\* Thread t takes a step of its call.
StepOf(t) == pc'[t] # pc[t]

\* The flag goes from true to false / from false to true.
FlagCleared == notified /\ ~notified'
FlagSet == ~notified /\ notified'

\* C16: single writer per direction.  Every transition of `notified` from
\* true to false is the swap of a wait() call, and every transition from
\* false to true is the store of a notify_one() call; no step of
\* notify_one() clears the flag and no step of wait() sets it.
C16_SingleWriterPerDirection ==
    [][/\ FlagCleared => \E w \in Waiters : SwapBy(w)
       /\ FlagSet => \E n \in Notifiers : pc[n] = "store" /\ pc'[n] = "unlock"
       /\ \A n \in Notifiers : StepOf(n) => ~FlagCleared
       /\ \A w \in Waiters : StepOf(w) => ~FlagSet]_vars

\* C16 witness: both transitions have been made: a notify_one() call set the
\* flag and a wait() call has now cleared it, while another notify_one()
\* call is on its way to store it again.
C16_Witness ==
    /\ \E w \in Waiters : outcome[w] = "consumed"
    /\ ~notified
    /\ \E n \in Notifiers : pc[n] = "lock" /\ did[n] = "none"

\* C17: the frame of the fast path.  A notify_one() call that read
\* `notified` true goes straight to its return: it never holds the mutex, and
\* none of its steps changes `sleep`, `notified`, the holder of the mutex or
\* the threads blocked on the condition variable, or moves another thread.
C17_FastPathFrame ==
    /\ [](\A n \in Notifiers :
             /\ did[n] = "sawcredit" => pc[n] = "skip" /\ holder # n
             /\ pc[n] = "skip" => did[n] = "sawcredit")
    /\ [][\A n \in Notifiers :
             (StepOf(n) /\ (did[n] = "sawcredit" \/ did'[n] = "sawcredit")) =>
                 /\ UNCHANGED <<sleep, holder, wake, notified, signalled>>
                 /\ pc'[n] \in {"skip", "idle"}
                 /\ \A t \in Threads \ {n} : pc'[t] = pc[t]]_vars

\* C17 witness: a notify_one() call is on the early exit while the mutex is
\* held by the notify_one() call that has just stored the credit.
C17_Witness ==
    /\ notified
    /\ \E n \in Notifiers : pc[n] = "skip" /\ did[n] = "sawcredit"
    /\ \E m \in Notifiers : pc[m] = "unlock" /\ holder = m /\ did[m] = "credit"

\* Worker w's wait() call holds the mutex and finds, or has found, the flag
\* true: from the lock() of a call that finds a credit to its return.
OnCreditPath(w) == (pc[w] = "swap" /\ notified) \/ outcome[w] = "consumed"

\* C18: the frame of the credit-consuming path of wait().  A wait() call
\* that finds `notified` true clears it with its swap and goes to release the
\* guard and return; it never increments `sleep` and never enters the
\* condition-variable wait; and `sleep` does not change from the moment the
\* call takes the mutex to the moment it has returned.
C18_CreditPathFrame ==
    /\ [](\A w \in Waiters :
             outcome[w] = "consumed" =>
                 pc[w] = "drop" /\ holder = w /\ w \notin wake /\ ~notified)
    /\ [][\A w \in Waiters :
             /\ (SwapBy(w) /\ notified) =>
                    ~notified' /\ pc'[w] = "drop" /\ outcome'[w] = "consumed"
             /\ (pc[w] = "idle" /\ pc'[w] = "swap") => sleep' = sleep
             /\ OnCreditPath(w) =>
                    /\ sleep' = sleep /\ wake' = wake
                    /\ StepOf(w) \/ UNCHANGED <<notified, holder>>
             /\ (outcome[w] = "consumed" /\ StepOf(w)) =>
                    /\ pc'[w] = "idle" /\ holder' = NoThread
                    /\ notified' = notified]_vars

\* C18 witness: a wait() call has consumed the credit and is about to
\* release the guard, with `sleep` at 0, nobody blocked and no notify_one()
\* call in progress.
C18_Witness ==
    /\ \E w \in Waiters : outcome[w] = "consumed" /\ pc[w] = "drop" /\ holder = w
    /\ sleep = 0 /\ wake = {} /\ spurious = 0
    /\ \A n \in Notifiers : pc[n] = "idle"

\* Worker w's wait() call has left the condition variable and is on its way
\* to return: lines 50-51 after Condvar::wait was woken.
OnWakePath(w) == pc[w] = "woken" \/ (pc[w] = "drop" /\ outcome[w] = "parked")

\* C19: a thread woken from the condition variable never consumes a credit.
\* The steps wait() takes after its wakeup (re-acquiring the guard, releasing
\* it, returning) change neither `notified` nor `sleep`, so a credit stored
\* by a notify_one() call between the signal and the woken thread's return
\* is still pending when that thread has returned.
C19_WokenLeavesCredit ==
    /\ [](\A w \in signalled : OnWakePath(w) /\ w \notin wake)
    /\ [][\A w \in Waiters :
             (OnWakePath(w) /\ StepOf(w)) =>
                 /\ notified' = notified
                 /\ sleep' = sleep /\ wake' = wake
                 /\ \/ pc[w] = "woken" /\ pc'[w] = "drop" /\ holder' = w
                    \/ pc[w] = "drop" /\ pc'[w] = "idle" /\ holder' = NoThread]_vars

\* C19 witness: a thread that a notify_one() call took off the condition
\* variable has re-acquired the guard and is about to return, and a credit
\* stored by another notify_one() call since the signal is pending.
C19_Witness ==
    /\ notified
    /\ \E w \in signalled : pc[w] = "drop" /\ holder = w /\ outcome[w] = "parked"

\* The positions from which `notified` is written: the swap at line 48 and
\* the store at line 63.
WritesFlag(t) == pc[t] \in {"swap", "store"}

\* C20: every write to `notified` is made by the thread that holds the
\* guard.  The swap of wait() and the store of notify_one() are made from
\* inside the critical section; every step that changes the flag is a step
\* of the holder of the mutex from one of those positions; the load at the
\* start of notify_one() is made without the guard and changes nothing; so
\* the flag never changes under a thread that is inside its critical section
\* unless that thread changes it.
C20_FlagWrittenUnderGuard ==
    /\ [](\A t \in Threads : WritesFlag(t) => InCritical(t) /\ holder = t)
    /\ [][/\ notified' # notified =>
                /\ holder \in Threads /\ holder' = holder
                /\ WritesFlag(holder) /\ StepOf(holder)
          /\ \A t \in Threads :
                (InCritical(t) /\ ~StepOf(t)) => notified' = notified
          /\ \A n \in Notifiers :
                (pc[n] = "idle" /\ StepOf(n)) =>
                    /\ notified' = notified /\ holder' = holder
                    /\ holder # n]_vars

\* C20 witness: a notify_one() call is about to store the flag inside its
\* critical section, after another notify_one() call made its load without
\* the guard.
C20_Witness ==
    /\ \E n \in Notifiers : pc[n] = "store" /\ holder = n
    /\ \E m \in Notifiers : pc[m] = "lock" /\ did[m] = "none"
    /\ ~notified

====
